---- MODULE Spec2Model ----
(***************************************************************************)
(* Model of the Scrape Tasks API (app/main.py, app/schemas.py,             *)
(* app/models.py, app/db.py): the API-key gate, the CRUD handlers over the *)
(* scrape_tasks table, the task queries, the delete by URL prefix over the *)
(* tables of the scraping workers, the paginated listing queries and the   *)
(* database session of a request.                                          *)
(*                                                                         *)
(* Conventions.  An Optional value is a set with at most one element: {}   *)
(* is None / SQL NULL and {v} is the value v, so that an SQL comparison    *)
(* with NULL is false by construction (\E t \in x : t <= now).  A request  *)
(* payload is the dict model_dump(exclude_unset=True) gives: a function    *)
(* whose DOMAIN is the set of fields the client sent.  A JSON object is a  *)
(* set of <<key, value>> pairs.  A handler written without a client is one *)
(* atomic step (the request runs alone); the handlers of the concurrency   *)
(* specifications take a client and are split at their database            *)
(* statements, so that the requests of several clients interleave.         *)
(***************************************************************************)
EXTENDS Integers, FiniteSets, Sequences, TLC

VARIABLES expected, now, nextId, tasks, resp,
          task_runs, listing_task_runs, listings, listing_snapshots, seqs,
          reqs, sessions

\* The tables the scraping workers fill, and the sequences of their ids.
related == <<task_runs, listing_task_runs, listings, listing_snapshots, seqs>>

\* The requests in flight and the database sessions they hold.
inflight == <<reqs, sessions>>

vars == <<expected, now, nextId, tasks, resp, related, inflight>>

----------------------------------------------------------------------------
(* Bounds *)

MaxTasks == 2     \* ids the scrape_tasks sequence hands out in a behaviour
MaxTime  == 1     \* last reading of the clock
MaxInserts == 4   \* rows the scraping workers insert in a behaviour
MaxClients == 2   \* clients with a request in flight at the same time

----------------------------------------------------------------------------
(* Values *)

None == {}
Some(v) == {v}
The(x) == CHOOSE v \in x : TRUE

SITES == {"easylive", "the_saleroom"}
TASK_TYPES == {"discover", "listing", "rescrape", "catalogue", "auction_times"}
STATUSES == {"pending", "running", "done", "failed"}

DefaultAttempts == 0
DefaultMaxAttempts == 5
EmptyObject == {}

\* Column nullability of scrape_tasks (nullable=False columns).
NotNullColumns ==
    {"site", "url", "task_type", "status", "attempts", "max_attempts", "meta"}

\* Columns of type JSONB.
JsonColumns == {"meta"}

Times == 0 .. MaxTime

----------------------------------------------------------------------------
(* Responses *)

Response(op, key, code, detail, id, total, items) ==
    [op |-> op, key |-> key, code |-> code, detail |-> detail,
     id |-> id, total |-> total, items |-> items]

Idle == Response("idle", None, 0, "", 0, 0, {})

Error(op, key, code, detail, id) == Response(op, key, code, detail, id, 0, {})

----------------------------------------------------------------------------
(* Auth gate: require_api_key *)

\* Mutant: only an unset secret is a misconfiguration; an empty one is compared.
RequireApiKey_UnsetOnly(api_key) ==
    IF expected = None
    THEN "API_KEY is not configured"
    ELSE IF api_key # expected
         THEN "Invalid API key"
         ELSE ""

\* "" when the request may proceed, else the HTTPException detail.
RequireApiKey(api_key) ==
    IF expected = None \/ expected = Some("")
    THEN "API_KEY is not configured"
    ELSE IF api_key # expected
         THEN "Invalid API key"
         ELSE ""

AuthCode(detail) == IF detail = "API_KEY is not configured" THEN 500 ELSE 401

\* api_key_header with auto_error=False: an absent or empty X-API-Key header
\* reaches require_api_key as None.
ApiKeyHeader(header) == IF header = Some("") THEN None ELSE header

\* The gate's verdict on a request that carries `header`.
Gate(header) == RequireApiKey(ApiKeyHeader(header))

\* A request stopped by the gate: no handler runs, no session is opened.
Rejected(op, header, id) ==
    /\ Gate(header) # ""
    /\ resp' = Error(op, header, AuthCode(Gate(header)), Gate(header), id)
    /\ UNCHANGED <<expected, now, nextId, tasks, related, inflight>>

----------------------------------------------------------------------------
(* The scrape_tasks table *)

Ids == {t.id : t \in tasks}
Row(id) == CHOOSE t \in tasks : t.id = id

\* JSON null in the meta column fails ScrapeTaskOut (meta: Dict[str, Any]).
Serializable(t) == t.meta # None

\* data.get(f): None when the field was not sent or was sent as null.
Field(data, f) == IF f \in DOMAIN data THEN data[f] ELSE None

----------------------------------------------------------------------------
(* POST /scrape_tasks: create_scrape_task *)

\* Mutant: the status is set to pending whatever the payload carries.
CreateData_AlwaysPending(payload) == ("status" :> Some("pending")) @@ payload

\* model_dump(exclude_unset=True), then status defaulted to pending.
CreateData(payload) ==
    IF Field(payload, "status") = None
    THEN ("status" :> Some("pending")) @@ payload
    ELSE payload

\* Mutant: scheduled_at is compared with = in both cases, and = NULL matches
\* no row.
ExistingPending_EqualsOnly(data) ==
    {t \in tasks :
        /\ t.site = The(data["site"])
        /\ t.url = The(data["url"])
        /\ t.task_type = The(data["task_type"])
        /\ t.status = "pending"
        /\ \E s \in t.scheduled_at : s \in Field(data, "scheduled_at")}

\* existing_pending_query: the pending rows with the payload's
\* (site, url, task_type, scheduled_at); a null scheduled_at matches IS NULL.
ExistingPending(data) ==
    {t \in tasks :
        /\ t.site = The(data["site"])
        /\ t.url = The(data["url"])
        /\ t.task_type = The(data["task_type"])
        /\ t.status = "pending"
        /\ IF Field(data, "scheduled_at") = None
           THEN t.scheduled_at = None
           ELSE \E s \in t.scheduled_at : s = The(data["scheduled_at"])}

\* ScrapeTask(**data) as the INSERT stores it: an attribute that is None is
\* left out of the INSERT, so a server default applies (attempts,
\* max_attempts); the JSONB column evaluates None and stores JSON null.
NewTask(data, id, clock) ==
    [id |-> id,
     site |-> The(data["site"]),
     url |-> The(data["url"]),
     task_type |-> The(data["task_type"]),
     status |-> The(data["status"]),
     scheduled_at |-> Field(data, "scheduled_at"),
     locked_at |-> Field(data, "locked_at"),
     attempts |-> IF Field(data, "attempts") = None
                  THEN DefaultAttempts ELSE The(data["attempts"]),
     max_attempts |-> IF Field(data, "max_attempts") = None
                      THEN DefaultMaxAttempts ELSE The(data["max_attempts"]),
     last_error |-> Field(data, "last_error"),
     meta |-> IF "meta" \in DOMAIN data THEN data["meta"] ELSE Some(EmptyObject),
     created_at |-> clock,
     updated_at |-> clock]

\* The handler's answer for a row it returns through ScrapeTaskOut.
Returned(op, key, okCode, t) ==
    IF Serializable(t)
    THEN Response(op, key, okCode, "", t.id, 0, {})
    ELSE Error(op, key, 500, "Internal Server Error", t.id)

CreateHandler(api_key, payload) ==
    LET data == CreateData(payload) IN
    IF ExistingPending(data) # {}
    THEN /\ \E e \in ExistingPending(data) :
              resp' = Response("create", api_key, 409,
                               "Scrape task is already pending", e.id, 0, {})
         /\ UNCHANGED <<expected, now, nextId, tasks, related, inflight>>
    ELSE /\ nextId <= MaxTasks
         /\ tasks' = tasks \cup {NewTask(data, nextId, now)}
         /\ nextId' = nextId + 1
         /\ resp' = Returned("create", api_key, 201, NewTask(data, nextId, now))
         /\ UNCHANGED <<expected, now, related, inflight>>

Create(api_key, payload) ==
    IF Gate(api_key) # ""
    THEN Rejected("create", api_key, 0)
    ELSE CreateHandler(api_key, payload)

----------------------------------------------------------------------------
(* GET /scrape_tasks/{task_id}: get_scrape_task *)

GetHandler(api_key, task_id) ==
    /\ resp' = IF task_id \notin Ids
               THEN Error("get", api_key, 404, "Not found", task_id)
               ELSE Returned("get", api_key, 200, Row(task_id))
    /\ UNCHANGED <<expected, now, nextId, tasks, related, inflight>>

Get(api_key, task_id) ==
    IF Gate(api_key) # ""
    THEN Rejected("get", api_key, task_id)
    ELSE GetHandler(api_key, task_id)

----------------------------------------------------------------------------
(* PATCH /scrape_tasks/{task_id}: update_scrape_task *)

\* Mutant: an explicit meta: null is kept and written like any other field.
UpdateData_NullKept(payload) == payload

\* model_dump(exclude_unset=True) with an explicit meta: null popped.
UpdateData(payload) ==
    IF "meta" \in DOMAIN payload /\ payload["meta"] = None
    THEN [f \in DOMAIN payload \ {"meta"} |-> payload[f]]
    ELSE payload

\* The UPDATE sets a nullable=False column to NULL: IntegrityError at commit.
\* (None in the JSONB column is written as JSON null, which is not NULL.)
ViolatesNotNull(data) ==
    \E f \in DOMAIN data :
        f \in NotNullColumns \ JsonColumns /\ data[f] = None

\* Mutant: updated_at is stamped only when the payload carries a field.
Updated_StampIfChanged(t, data, clock) ==
    LET Plain(f) == IF f \in DOMAIN data THEN The(data[f]) ELSE t[f]
        Opt(f) == IF f \in DOMAIN data THEN data[f] ELSE t[f]
    IN [id |-> t.id,
        site |-> Plain("site"),
        url |-> Plain("url"),
        task_type |-> Plain("task_type"),
        status |-> Plain("status"),
        scheduled_at |-> Opt("scheduled_at"),
        locked_at |-> Opt("locked_at"),
        attempts |-> Plain("attempts"),
        max_attempts |-> Plain("max_attempts"),
        last_error |-> Opt("last_error"),
        meta |-> Opt("meta"),
        created_at |-> t.created_at,
        updated_at |-> IF DOMAIN data = {} THEN t.updated_at ELSE clock]

\* setattr for every key of data, then the updated_at stamp.
Updated(t, data, clock) ==
    LET Plain(f) == IF f \in DOMAIN data THEN The(data[f]) ELSE t[f]
        Opt(f) == IF f \in DOMAIN data THEN data[f] ELSE t[f]
    IN [id |-> t.id,
        site |-> Plain("site"),
        url |-> Plain("url"),
        task_type |-> Plain("task_type"),
        status |-> Plain("status"),
        scheduled_at |-> Opt("scheduled_at"),
        locked_at |-> Opt("locked_at"),
        attempts |-> Plain("attempts"),
        max_attempts |-> Plain("max_attempts"),
        last_error |-> Opt("last_error"),
        meta |-> Opt("meta"),
        created_at |-> t.created_at,
        updated_at |-> clock]

UpdateHandler(api_key, task_id, payload) ==
    LET data == UpdateData(payload) IN
    IF task_id \notin Ids
    THEN /\ resp' = Error("update", api_key, 404, "Not found", task_id)
         /\ UNCHANGED <<expected, now, nextId, tasks, related, inflight>>
    ELSE IF ViolatesNotNull(data)
    THEN /\ resp' = Error("update", api_key, 500, "Internal Server Error", task_id)
         /\ UNCHANGED <<expected, now, nextId, tasks, related, inflight>>
    ELSE /\ tasks' = (tasks \ {Row(task_id)})
                       \cup {Updated(Row(task_id), data, now)}
         /\ resp' = Returned("update", api_key, 200,
                             Updated(Row(task_id), data, now))
         /\ UNCHANGED <<expected, now, nextId, related, inflight>>

Update(api_key, task_id, payload) ==
    IF Gate(api_key) # ""
    THEN Rejected("update", api_key, task_id)
    ELSE UpdateHandler(api_key, task_id, payload)

----------------------------------------------------------------------------
(* DELETE /scrape_tasks/{task_id}: delete_scrape_task *)

\* Mutant: only finished tasks are protected.
Deletable_AllButDone(t) == t.status \in {"pending", "failed", "running"}

Deletable(t) == t.status \in {"pending", "failed"}

DeleteHandler(api_key, task_id) ==
    IF task_id \notin Ids
    THEN /\ resp' = Error("delete", api_key, 404, "Not found", task_id)
         /\ UNCHANGED <<expected, now, nextId, tasks, related, inflight>>
    ELSE IF ~Deletable(Row(task_id))
    THEN /\ resp' = Error("delete", api_key, 409,
                          "Only pending or failed tasks can be deleted", task_id)
         /\ UNCHANGED <<expected, now, nextId, tasks, related, inflight>>
    ELSE /\ tasks' = tasks \ {Row(task_id)}
         /\ resp' = Response("delete", api_key, 204, "", task_id, 0, {})
         /\ UNCHANGED <<expected, now, nextId, related, inflight>>

Delete(api_key, task_id) ==
    IF Gate(api_key) # ""
    THEN Rejected("delete", api_key, task_id)
    ELSE DeleteHandler(api_key, task_id)

----------------------------------------------------------------------------
(* GET /scrape_tasks: list_scrape_tasks *)

Min(a, b) == IF a <= b THEN a ELSE b
Max(a, b) == IF a >= b THEN a ELSE b

\* The chain of query.filter calls; `filters` maps each query parameter
\* that was sent to its value.  A NULL scheduled_at satisfies no comparison.
ListMatches(t, filters) ==
    /\ "task_type" \in DOMAIN filters => t.task_type = filters["task_type"]
    /\ "status" \in DOMAIN filters => t.status = filters["status"]
    /\ "site" \in DOMAIN filters => t.site = filters["site"]
    /\ "scheduled_at" \in DOMAIN filters =>
           \E s \in t.scheduled_at : s = filters["scheduled_at"]
    /\ "scheduled_at_from" \in DOMAIN filters =>
           \E s \in t.scheduled_at : s >= filters["scheduled_at_from"]
    /\ "scheduled_at_to" \in DOMAIN filters =>
           \E s \in t.scheduled_at : s <= filters["scheduled_at_to"]
    /\ "created_at" \in DOMAIN filters => t.created_at = filters["created_at"]
    /\ "created_at_from" \in DOMAIN filters =>
           t.created_at >= filters["created_at_from"]
    /\ "created_at_to" \in DOMAIN filters =>
           t.created_at <= filters["created_at_to"]

ListMatched(filters) == {t \in tasks : ListMatches(t, filters)}

\* query.offset(offset).limit(limit).all() on a query with no ORDER BY: the
\* database may return the matched rows in any order, so a page is any set
\* of matched rows that has the page's size.
PageSize(total, limit, offset) == Min(limit, Max(0, total - offset))

Pages(matched, limit, offset) ==
    {S \in SUBSET matched :
        Cardinality(S) = PageSize(Cardinality(matched), limit, offset)}

\* {"total": total, "items": items} through ScrapeTaskListResponse.
ListResponse(op, key, total, items) ==
    IF \A t \in items : Serializable(t)
    THEN Response(op, key, 200, "", 0, total, {t.id : t \in items})
    ELSE Error(op, key, 500, "Internal Server Error", 0)

\* Mutant: total is taken from the page, after offset and limit.
ListResults_TotalOfPage(filters, limit, offset) ==
    {[total |-> Cardinality(items), items |-> items] :
        items \in Pages(ListMatched(filters), limit, offset)}

\* What the handler can return: total = query.count(), items = one page.
ListResults(filters, limit, offset) ==
    {[total |-> Cardinality(ListMatched(filters)), items |-> items] :
        items \in Pages(ListMatched(filters), limit, offset)}

ListHandler(api_key, filters, limit, offset) ==
    /\ \E r \in ListResults(filters, limit, offset) :
           resp' = ListResponse("list", api_key, r.total, r.items)
    /\ UNCHANGED <<expected, now, nextId, tasks, related, inflight>>

List(api_key, filters, limit, offset) ==
    IF Gate(api_key) # ""
    THEN Rejected("list", api_key, 0)
    ELSE ListHandler(api_key, filters, limit, offset)

----------------------------------------------------------------------------
(* GET /scrape_tasks/next_pending and /analytics/scrape_tasks/pending_future *)

\* scheduled_at.asc().nulls_last(): a may come before b.
ScheduledBefore(a, b) ==
    \/ b.scheduled_at = None
    \/ \E x \in a.scheduled_at : \E y \in b.scheduled_at : x <= y

\* order_by(...).limit(limit).all(): the first `limit` rows of the order,
\* ties broken as the database pleases.
FirstBySchedule(matched, limit) ==
    {S \in SUBSET matched :
        /\ Cardinality(S) = Min(limit, Cardinality(matched))
        /\ \A a \in S : \A b \in matched \ S : ScheduledBefore(a, b)}

\* Mutant: the scheduled_at filter is missing.
NextPendingMatched_AnyTime(clock) == {t \in tasks : t.status = "pending"}

NextPendingMatched(clock) ==
    {t \in tasks :
        /\ t.status = "pending"
        /\ (t.scheduled_at = None \/ \E s \in t.scheduled_at : s <= clock)}

\* Mutant: the comparison with now is >= instead of >.
PendingFutureMatched_Inclusive(clock) ==
    {t \in tasks :
        /\ t.status = "pending"
        /\ t.scheduled_at # None
        /\ \E s \in t.scheduled_at : s >= clock}

PendingFutureMatched(clock) ==
    {t \in tasks :
        /\ t.status = "pending"
        /\ t.scheduled_at # None
        /\ \E s \in t.scheduled_at : s > clock}

\* Mutant: the query claims the tasks it returns (running, locked now).
NextPendingHandler_Claiming(api_key, limit) ==
    /\ \E items \in FirstBySchedule(NextPendingMatched(now), limit) :
           /\ resp' = ListResponse("next_pending", api_key,
                                   Cardinality(NextPendingMatched(now)), items)
           /\ tasks' = {IF t \in items
                        THEN [t EXCEPT !.status = "running",
                                       !.locked_at = Some(now)]
                        ELSE t : t \in tasks}
    /\ UNCHANGED <<expected, now, nextId, related, inflight>>

NextPendingHandler(api_key, limit) ==
    /\ \E items \in FirstBySchedule(NextPendingMatched(now), limit) :
           resp' = ListResponse("next_pending", api_key,
                                Cardinality(NextPendingMatched(now)), items)
    /\ UNCHANGED <<expected, now, nextId, tasks, related, inflight>>

NextPending(api_key, limit) ==
    IF Gate(api_key) # ""
    THEN Rejected("next_pending", api_key, 0)
    ELSE NextPendingHandler(api_key, limit)

PendingFutureHandler(api_key, limit) ==
    /\ \E items \in FirstBySchedule(PendingFutureMatched(now), limit) :
           resp' = ListResponse("pending_future", api_key,
                                Cardinality(PendingFutureMatched(now)), items)
    /\ UNCHANGED <<expected, now, nextId, tasks, related, inflight>>

PendingFuture(api_key, limit) ==
    IF Gate(api_key) # ""
    THEN Rejected("pending_future", api_key, 0)
    ELSE PendingFutureHandler(api_key, limit)

----------------------------------------------------------------------------
(* The clock: datetime.now(timezone.utc) and the database's now() *)

Tick ==
    /\ now < MaxTime
    /\ now' = now + 1
    /\ resp' = Idle
    /\ UNCHANGED <<expected, nextId, tasks, related, inflight>>

----------------------------------------------------------------------------
(* The tables of the scraping workers: task_runs, listings, the join table  *)
(* listing_task_runs and listing_snapshots.  The workers are outside the    *)
(* repository; the columns are those the SQL of main.py names.  No foreign  *)
(* key is declared between the tables.                                      *)

Database ==
    [task_runs |-> task_runs, listing_task_runs |-> listing_task_runs,
     listings |-> listings, listing_snapshots |-> listing_snapshots]

\* Rows the workers inserted so far.
Inserted ==
    (seqs.task_runs - 1) + (seqs.listings - 1) + (seqs.listing_snapshots - 1)
        + seqs.listing_task_runs

\* A worker starts a run of a task.
WorkerRun(task_id, auctioneer_name) ==
    /\ Inserted < MaxInserts
    /\ task_id \in Ids
    /\ task_runs' = task_runs \cup
           {[id |-> seqs.task_runs, task_id |-> task_id,
             url |-> Row(task_id).url, auctioneer_name |-> auctioneer_name]}
    /\ seqs' = [seqs EXCEPT !.task_runs = @ + 1]
    /\ resp' = Idle
    /\ UNCHANGED <<expected, now, nextId, tasks, listing_task_runs, listings,
                   listing_snapshots, inflight>>

\* A run finds a lot it has not seen: the listing and its join row.
WorkerListing(task_run_id) ==
    /\ Inserted < MaxInserts
    /\ \E r \in task_runs : r.id = task_run_id
    /\ listings' = listings \cup {[id |-> seqs.listings]}
    /\ listing_task_runs' = listing_task_runs \cup
           {[task_run_id |-> task_run_id, listing_id |-> seqs.listings]}
    /\ seqs' = [seqs EXCEPT !.listings = @ + 1]
    /\ resp' = Idle
    /\ UNCHANGED <<expected, now, nextId, tasks, task_runs,
                   listing_snapshots, inflight>>

\* A run finds a lot another run recorded: only the join row.
WorkerLink(task_run_id, listing_id) ==
    /\ Inserted < MaxInserts
    /\ \E r \in task_runs : r.id = task_run_id
    /\ \E l \in listings : l.id = listing_id
    /\ [task_run_id |-> task_run_id, listing_id |-> listing_id]
           \notin listing_task_runs
    /\ listing_task_runs' = listing_task_runs \cup
           {[task_run_id |-> task_run_id, listing_id |-> listing_id]}
    /\ seqs' = [seqs EXCEPT !.listing_task_runs = @ + 1]
    /\ resp' = Idle
    /\ UNCHANGED <<expected, now, nextId, tasks, task_runs, listings,
                   listing_snapshots, inflight>>

\* A capture of a listing's scraped state.
WorkerSnapshot(listing_id, data) ==
    /\ Inserted < MaxInserts
    /\ \E l \in listings : l.id = listing_id
    /\ listing_snapshots' = listing_snapshots \cup
           {[id |-> seqs.listing_snapshots, listing_id |-> listing_id,
             data |-> data]}
    /\ seqs' = [seqs EXCEPT !.listing_snapshots = @ + 1]
    /\ resp' = Idle
    /\ UNCHANGED <<expected, now, nextId, tasks, task_runs,
                   listing_task_runs, listings, inflight>>

----------------------------------------------------------------------------
(* DELETE /scrape_tasks/related/by_url: delete_scrape_task_related_records *)

\* s LIKE pattern: % matches any run of characters, _ any one character.
RECURSIVE Like(_, _)
Like(s, pattern) ==
    IF pattern = <<>>
    THEN s = <<>>
    ELSE IF Head(pattern) = "%"
         THEN Like(s, Tail(pattern)) \/ (s # <<>> /\ Like(Tail(s), pattern))
         ELSE /\ s # <<>>
              /\ Head(pattern) = "_" \/ Head(pattern) = Head(s)
              /\ Like(Tail(s), Tail(pattern))

\* Mutant: the task_type condition is dropped.
MatchedTaskIds_AnyType(url) ==
    {t.id : t \in {t \in tasks : Like(t.url, url \o <<"%">>)}}

\* url LIKE :url_pattern AND task_type = 'catalogue', pattern f"{url}%".
MatchedTaskIds(url) ==
    {t.id : t \in {t \in tasks : /\ Like(t.url, url \o <<"%">>)
                                 /\ t.task_type = "catalogue"}}

TaskRunIds(db, task_ids) ==
    {r.id : r \in {r \in db.task_runs : r.task_id \in task_ids}}

ListingIds(db, task_ids) ==
    {j.listing_id : j \in
        {j \in db.listing_task_runs :
            \E r \in db.task_runs : /\ r.id = j.task_run_id
                                    /\ r.task_id \in task_ids}}

\* Mutant: the snapshots of the deleted listings are kept.
Statement_KeepSnapshots(db, n, task_run_ids, listing_ids) ==
    CASE n = 1 ->
           [db EXCEPT !.listing_task_runs =
                {j \in @ : j.task_run_id \notin task_run_ids}]
      [] n = 2 -> db
      [] n = 3 ->
           [db EXCEPT !.listings = {l \in @ : l.id \notin listing_ids}]
      [] n = 4 ->
           [db EXCEPT !.task_runs = {r \in @ : r.id \notin task_run_ids}]

\* The n-th DELETE of the handler, in the order it executes them.
Statement(db, n, task_run_ids, listing_ids) ==
    CASE n = 1 ->
           IF task_run_ids # {}
           THEN [db EXCEPT !.listing_task_runs =
                    {j \in @ : j.task_run_id \notin task_run_ids}]
           ELSE db
      [] n = 2 ->
           IF listing_ids # {}
           THEN [db EXCEPT !.listing_snapshots =
                    {s \in @ : s.listing_id \notin listing_ids}]
           ELSE db
      [] n = 3 ->
           IF listing_ids # {}
           THEN [db EXCEPT !.listings = {l \in @ : l.id \notin listing_ids}]
           ELSE db
      [] n = 4 ->
           IF task_run_ids # {}
           THEN [db EXCEPT !.task_runs =
                    {r \in @ : r.id \notin task_run_ids}]
           ELSE db

\* The DELETE statements of the handler.
StatementCount == 4

RECURSIVE Executed(_, _, _, _)
\* db after the first n statements.
Executed(db, n, task_run_ids, listing_ids) ==
    IF n = 0
    THEN db
    ELSE Statement(Executed(db, n - 1, task_run_ids, listing_ids), n,
                   task_run_ids, listing_ids)

\* What the request answers and the database it leaves, when it runs alone.
DeleteRelatedOutcome(url, dry_run) ==
    LET task_ids == MatchedTaskIds(url)
    IN  IF task_ids = {}
        THEN [code |-> 404, task_ids |-> {}, dry_run |-> dry_run,
              db |-> Database]
        ELSE IF dry_run
             THEN [code |-> 200, task_ids |-> task_ids, dry_run |-> TRUE,
                   db |-> Database]
             ELSE [code |-> 200, task_ids |-> task_ids, dry_run |-> FALSE,
                   db |-> Executed(Database, StatementCount,
                                   TaskRunIds(Database, task_ids),
                                   ListingIds(Database, task_ids))]

DeleteRelatedResponse(api_key, out) ==
    IF out.code = 404
    THEN Error("delete_related", api_key, 404, "Not found", 0)
    ELSE [dry_run |-> out.dry_run]
             @@ Response("delete_related", api_key, 200, "", 0,
                         Cardinality(out.task_ids), out.task_ids)

Commit(db) ==
    /\ task_runs' = db.task_runs
    /\ listing_task_runs' = db.listing_task_runs
    /\ listings' = db.listings
    /\ listing_snapshots' = db.listing_snapshots

DeleteRelatedHandler(api_key, url, dry_run) ==
    LET out == DeleteRelatedOutcome(url, dry_run)
    IN  /\ Commit(out.db)
        /\ resp' = DeleteRelatedResponse(api_key, out)
        /\ UNCHANGED <<expected, now, nextId, tasks, seqs, inflight>>

DeleteRelated(api_key, url, dry_run) ==
    IF Gate(api_key) # ""
    THEN Rejected("delete_related", api_key, 0)
    ELSE DeleteRelatedHandler(api_key, url, dry_run)

----------------------------------------------------------------------------
(* GET /listing_snapshots/by_catalogue and GET /listings/by_auctioneer *)

\* task_runs JOIN listing_task_runs JOIN listings JOIN listing_snapshots.
JoinRows ==
    {[task_run |-> r, listing_id |-> l.id, snapshot |-> s] :
        r \in task_runs, l \in listings, s \in listing_snapshots}

BaseRows ==
    {x \in JoinRows :
        /\ [task_run_id |-> x.task_run.id, listing_id |-> x.listing_id]
               \in listing_task_runs
        /\ x.snapshot.listing_id = x.listing_id}

\* The pages ORDER BY key DESC LIMIT limit OFFSET offset can give, key[x]
\* being the sort key of row x: rows of equal key come in any order.
OrderedPages(rows, key, limit, offset) ==
    LET total == Cardinality(rows)
        skipped == Min(offset, total)
    IN  {S \in SUBSET rows :
            /\ Cardinality(S) = PageSize(total, limit, offset)
            /\ \E P \in SUBSET (rows \ S) :
                   /\ Cardinality(P) = skipped
                   /\ \A p \in P : \A x \in rows \ P : key[p] >= key[x]
                   /\ \A s \in S : \A x \in rows \ (P \cup S) :
                          key[s] >= key[x]}

\* next_offset = None; if offset + len(rows) < total: offset + len(rows).
NextOffset(offset, returned, limit, total) ==
    IF offset + returned < total THEN Some(offset + returned) ELSE None

SnapshotId(x) == x.snapshot.id

\* WHERE tr.url LIKE :catalogue_url_pattern OR st.url = :catalogue_url.
ByCatalogueRows(catalogue_url) ==
    {x \in BaseRows :
        \/ Like(x.task_run.url, catalogue_url \o <<"%">>)
        \/ \E st \in tasks : /\ st.id = x.task_run.task_id
                             /\ st.url = catalogue_url}

ByCatalogueResults(catalogue_url, limit, offset) ==
    LET rows == ByCatalogueRows(catalogue_url)
        total == Cardinality(rows)
    IN  {[total |-> total,
          total_listings |-> Cardinality({x.listing_id : x \in rows}),
          next_offset |-> NextOffset(offset, Cardinality(items), limit, total),
          items |-> items] :
            items \in OrderedPages(rows, [x \in rows |-> SnapshotId(x)],
                                   limit, offset)}

PagedResponse(op, api_key, r) ==
    [next_offset |-> r.next_offset]
        @@ Response(op, api_key, 200, "", 0, r.total, r.items)

ByCatalogueHandler(api_key, catalogue_url, limit, offset) ==
    /\ \E r \in ByCatalogueResults(catalogue_url, limit, offset) :
           resp' = PagedResponse("by_catalogue", api_key, r)
    /\ UNCHANGED <<expected, now, nextId, tasks, related, inflight>>

ByCatalogue(api_key, catalogue_url, limit, offset) ==
    IF Gate(api_key) # ""
    THEN Rejected("by_catalogue", api_key, 0)
    ELSE ByCatalogueHandler(api_key, catalogue_url, limit, offset)

\* WHERE tr.auctioneer_name = :auctioneer.
ByAuctioneerBase(auctioneer_name) ==
    {x \in BaseRows : x.task_run.auctioneer_name = Some(auctioneer_name)}

\* SELECT DISTINCT l.*, ..., ls.data: one row for each listing and data.
ByAuctioneerRows(auctioneer_name) ==
    {[listing_id |-> x.listing_id, data |-> x.snapshot.data] :
        x \in ByAuctioneerBase(auctioneer_name)}

ListingId(x) == x.listing_id

ByAuctioneerResults(auctioneer_name, limit, offset) ==
    LET base == ByAuctioneerBase(auctioneer_name)
        rows == ByAuctioneerRows(auctioneer_name)
        total_listings == Cardinality({x.listing_id : x \in base})
    IN  {[total |-> total_listings,
          total_snapshots |-> Cardinality(base),
          next_offset |-> NextOffset(offset, Cardinality(items), limit,
                                     total_listings),
          items |-> items] :
            items \in OrderedPages(rows, [x \in rows |-> ListingId(x)],
                                   limit, offset)}

ByAuctioneerHandler(api_key, auctioneer_name, limit, offset) ==
    /\ \E r \in ByAuctioneerResults(auctioneer_name, limit, offset) :
           resp' = PagedResponse("by_auctioneer", api_key, r)
    /\ UNCHANGED <<expected, now, nextId, tasks, related, inflight>>

ByAuctioneer(api_key, auctioneer_name, limit, offset) ==
    IF Gate(api_key) # ""
    THEN Rejected("by_auctioneer", api_key, 0)
    ELSE ByAuctioneerHandler(api_key, auctioneer_name, limit, offset)

----------------------------------------------------------------------------
(* Requests in flight.  The handlers are plain functions, which the         *)
(* framework runs on worker threads: the requests of different clients      *)
(* interleave at their database statements.  reqs[c] is what client c's     *)
(* handler holds between two statements, sessions the clients whose         *)
(* session is open.                                                         *)

Clients == 1 .. MaxClients
NoRequest == [op |-> "none", pc |-> "idle"]

\* db = SessionLocal(); yield db
GetDb(c) == sessions \cup {c}

\* Mutant: the session is closed on the normal return only.
Close_OnReturn(open, c, code) ==
    IF code >= 400 THEN open ELSE open \ {c}

\* finally: db.close(), whatever the handler answered.
Close(open, c, code) == open \ {c}

\* The handler returns or raises: the response goes out, the session closes.
Complete(c, response) ==
    /\ resp' = response
    /\ reqs' = [reqs EXCEPT ![c] = NoRequest]
    /\ sessions' = Close(GetDb(c), c, response.code)

\* The handler holds `request` until its next statement.
Proceed(c, request) ==
    /\ reqs' = [reqs EXCEPT ![c] = request]
    /\ sessions' = GetDb(c)
    /\ UNCHANGED resp

InFlight(op) == {c \in Clients : reqs[c].op = op}

\* Mutant: a unique index on the pending tuple rejects the second insert.
InsertAllowed_UniquePending(data) == ExistingPending(data) = {}

\* db.add(task); db.commit(): no constraint of the table looks at other rows.
InsertAllowed(data) == TRUE

\* create_scrape_task up to the existence check.
CreateBegin(c, api_key, payload) ==
    /\ reqs[c].pc = "idle"
    /\ IF Gate(api_key) # ""
       THEN Rejected("create", api_key, 0)
       ELSE LET data == CreateData(payload) IN
            /\ IF ExistingPending(data) # {}
               THEN \E e \in ExistingPending(data) :
                        Complete(c, Response("create", api_key, 409,
                                             "Scrape task is already pending",
                                             e.id, 0, {}))
               ELSE /\ nextId + Cardinality(InFlight("create")) <= MaxTasks
                    /\ Proceed(c, [op |-> "create", pc |-> "insert",
                                   key |-> api_key, data |-> data])
            /\ UNCHANGED <<expected, now, nextId, tasks, related>>

\* create_scrape_task from db.add(task) on.
CreateInsert(c) ==
    /\ reqs[c].op = "create"
    /\ reqs[c].pc = "insert"
    /\ LET r == reqs[c]
           task == NewTask(r.data, nextId, now)
       IN  IF InsertAllowed(r.data)
           THEN /\ tasks' = tasks \cup {task}
                /\ nextId' = nextId + 1
                /\ Complete(c, Returned("create", r.key, 201, task))
           ELSE /\ Complete(c, Error("create", r.key, 500,
                                     "Internal Server Error", 0))
                /\ UNCHANGED <<nextId, tasks>>
    /\ UNCHANGED <<expected, now, related>>

\* update_scrape_task up to the SELECT of the task.
UpdateBegin(c, api_key, task_id, payload) ==
    /\ reqs[c].pc = "idle"
    /\ IF Gate(api_key) # ""
       THEN Rejected("update", api_key, task_id)
       ELSE /\ IF task_id \notin Ids
               THEN Complete(c, Error("update", api_key, 404, "Not found",
                                      task_id))
               ELSE Proceed(c, [op |-> "update", pc |-> "commit",
                                key |-> api_key, id |-> task_id,
                                data |-> UpdateData(payload),
                                seen |-> Row(task_id)])
            /\ UNCHANGED <<expected, now, nextId, tasks, related>>

\* The attributes whose value differs from the loaded one: the columns the
\* UPDATE sets.
Changed(data, seen) ==
    LET assigned == Updated(seen, data, seen.updated_at)
    IN  [f \in {f \in DOMAIN data : assigned[f] # seen[f]} |-> data[f]]

\* update_scrape_task from the setattr loop on: UPDATE ... WHERE id = :id.
UpdateCommit(c) ==
    /\ reqs[c].op = "update"
    /\ reqs[c].pc = "commit"
    /\ LET r == reqs[c] IN
       IF r.id \notin Ids \/ ViolatesNotNull(r.data)
       THEN /\ Complete(c, Error("update", r.key, 500,
                                 "Internal Server Error", r.id))
            /\ UNCHANGED tasks
       ELSE LET task == Updated(Row(r.id), Changed(r.data, r.seen), now)
            IN  /\ tasks' = (tasks \ {Row(r.id)}) \cup {task}
                /\ Complete(c, Returned("update", r.key, 200, task))
    /\ UNCHANGED <<expected, now, nextId, related>>

\* delete_scrape_task up to the status check.
DeleteBegin(c, api_key, task_id) ==
    /\ reqs[c].pc = "idle"
    /\ IF Gate(api_key) # ""
       THEN Rejected("delete", api_key, task_id)
       ELSE /\ IF task_id \notin Ids
               THEN Complete(c, Error("delete", api_key, 404, "Not found",
                                      task_id))
               ELSE IF ~Deletable(Row(task_id))
               THEN Complete(c, Error("delete", api_key, 409,
                          "Only pending or failed tasks can be deleted",
                          task_id))
               ELSE Proceed(c, [op |-> "delete", pc |-> "commit",
                                key |-> api_key, id |-> task_id])
            /\ UNCHANGED <<expected, now, nextId, tasks, related>>

\* db.delete(task); db.commit(): DELETE FROM scrape_tasks WHERE id = :id.
DeleteCommit(c) ==
    /\ reqs[c].op = "delete"
    /\ reqs[c].pc = "commit"
    /\ tasks' = {t \in tasks : t.id # reqs[c].id}
    /\ Complete(c, Response("delete", reqs[c].key, 204, "", reqs[c].id,
                            0, {}))
    /\ UNCHANGED <<expected, now, nextId, related>>

----------------------------------------------------------------------------
(* delete_scrape_task_related_records statement by statement.  The tables   *)
(* are the committed rows, which is what another request's session reads;   *)
(* the handler's own session sees Executed(Database, n, ...) after its n-th *)
(* DELETE.                                                                  *)

\* Mutant: the session commits every statement as it executes it.
Execute_Autocommit(db, n, task_run_ids, listing_ids) ==
    Statement(db, n, task_run_ids, listing_ids)

\* The committed rows after the n-th DELETE of a session made with
\* autocommit=False: the statement stays in the session's transaction.
Execute(db, n, task_run_ids, listing_ids) == db

\* The SELECTs: the matched tasks, their runs, the listings of those runs.
DeleteRelatedBegin(c, api_key, url, dry_run) ==
    /\ reqs[c].pc = "idle"
    /\ IF Gate(api_key) # ""
       THEN Rejected("delete_related", api_key, 0)
       ELSE LET out == DeleteRelatedOutcome(url, dry_run) IN
            /\ IF out.code = 404 \/ dry_run
               THEN Complete(c, DeleteRelatedResponse(api_key, out))
               ELSE Proceed(c,
                        [op |-> "delete_related", pc |-> "execute",
                         key |-> api_key, executed |-> 0,
                         task_ids |-> out.task_ids,
                         task_run_ids |-> TaskRunIds(Database, out.task_ids),
                         listing_ids |-> ListingIds(Database, out.task_ids)])
            /\ UNCHANGED <<expected, now, nextId, tasks, related>>

\* The next DELETE of the handler.
DeleteRelatedExecute(c) ==
    /\ reqs[c].op = "delete_related"
    /\ reqs[c].executed < StatementCount
    /\ Commit(Execute(Database, reqs[c].executed + 1, reqs[c].task_run_ids,
                      reqs[c].listing_ids))
    /\ Proceed(c, [reqs[c] EXCEPT !.executed = @ + 1])
    /\ UNCHANGED <<expected, now, nextId, tasks, seqs>>

\* A statement or the commit raises: get_db closes the session, which rolls
\* the transaction back.
DeleteRelatedFail(c) ==
    /\ reqs[c].op = "delete_related"
    /\ Complete(c, Error("delete_related", reqs[c].key, 500,
                         "Internal Server Error", 0))
    /\ UNCHANGED <<expected, now, nextId, tasks, related>>

\* db.commit() after the last DELETE.
DeleteRelatedCommit(c) ==
    /\ reqs[c].op = "delete_related"
    /\ reqs[c].executed = StatementCount
    /\ Commit(Executed(Database, StatementCount, reqs[c].task_run_ids,
                       reqs[c].listing_ids))
    /\ Complete(c, DeleteRelatedResponse(reqs[c].key,
                       [code |-> 200, task_ids |-> reqs[c].task_ids,
                        dry_run |-> FALSE]))
    /\ UNCHANGED <<expected, now, nextId, tasks, seqs>>

----------------------------------------------------------------------------
(* Initial state: the configured environment and an empty table *)

Secrets == {None, Some(""), Some("k1")}
Keys == {None, Some(""), Some("k1"), Some("k2")}

Init ==
    /\ expected \in Secrets
    /\ now = 0
    /\ nextId = 1
    /\ tasks = {}
    /\ resp = Idle
    /\ task_runs = {}
    /\ listing_task_runs = {}
    /\ listings = {}
    /\ listing_snapshots = {}
    /\ seqs = [task_runs |-> 1, listings |-> 1, listing_snapshots |-> 1,
               listing_task_runs |-> 0]
    /\ reqs = [c \in Clients |-> NoRequest]
    /\ sessions = {}

----------------------------------------------------------------------------
(* Request inputs *)

U1 == <<"a">>
U2 == <<"a", "b">>

MetaA == {<<"a", 1>>}
MetaB == {<<"b", 2>>}

\* A valid ScrapeTaskCreate body with only the required fields sent.
Required(site, url, task_type) ==
    [site |-> Some(site), url |-> Some(url), task_type |-> Some(task_type)]

\* The body `payload` with field f also sent, as value v (None: null).
With(payload, f, v) == (f :> v) @@ payload

NoFields == [f \in {} |-> None]

TaskIds == 1 .. MaxTasks
Limits == 1 .. MaxTasks

----------------------------------------------------------------------------
(* Spec: every route behind the gate, with any key header *)

ApiCreatePayloads ==
    {Required("easylive", U1, "catalogue"),
     With(Required("easylive", U1, "catalogue"), "status", Some("running"))}

ApiUpdatePayloads == {With(NoFields, "status", Some("done"))}

ApiCreate == \E k \in Keys : \E p \in ApiCreatePayloads : Create(k, p)
ApiGet == \E k \in Keys : \E id \in TaskIds : Get(k, id)
ApiUpdate ==
    \E k \in Keys : \E id \in TaskIds : \E p \in ApiUpdatePayloads :
        Update(k, id, p)
ApiDelete == \E k \in Keys : \E id \in TaskIds : Delete(k, id)
ApiList == \E k \in Keys : \E l \in Limits : List(k, NoFields, l, 0)
ApiNextPending == \E k \in Keys : \E l \in Limits : NextPending(k, l)
ApiPendingFuture == \E k \in Keys : \E l \in Limits : PendingFuture(k, l)

Next ==
    \/ ApiCreate
    \/ ApiGet
    \/ ApiUpdate
    \/ ApiDelete
    \/ ApiList
    \/ ApiNextPending
    \/ ApiPendingFuture
    \/ Tick

Spec == Init /\ [][Next]_vars

----------------------------------------------------------------------------
(* SpecCrud: create, update, delete and get by a client that holds the key, *)
(* over the (site, url, task_type, scheduled_at) tuples and the statuses   *)

ValidKey == Some("k1")

InitConfigured == Init /\ expected = ValidKey

StatusInputs == {None} \cup {Some(s) : s \in STATUSES}

CrudTuples ==
    {Required("easylive", U1, "catalogue"),
     Required("the_saleroom", U1, "catalogue"),
     Required("easylive", U2, "catalogue"),
     Required("easylive", U1, "listing"),
     With(Required("easylive", U1, "catalogue"), "scheduled_at", None),
     With(Required("easylive", U1, "catalogue"), "scheduled_at", Some(0))}

CrudCreatePayloads ==
    CrudTuples
      \cup {With(Required("easylive", U1, "catalogue"), "status", s) :
               s \in StatusInputs}

CrudUpdatePayloads ==
    {NoFields,
     With(NoFields, "status", Some("pending")),
     With(NoFields, "status", Some("done")),
     With(NoFields, "url", Some(U1)),
     With(NoFields, "scheduled_at", None)}

CrudCreate == \E p \in CrudCreatePayloads : Create(ValidKey, p)
CrudGet == \E id \in TaskIds : Get(ValidKey, id)
CrudUpdate ==
    \E id \in TaskIds : \E p \in CrudUpdatePayloads : Update(ValidKey, id, p)
CrudDelete == \E id \in TaskIds : Delete(ValidKey, id)

NextCrud ==
    \/ CrudCreate
    \/ CrudGet
    \/ CrudUpdate
    \/ CrudDelete

SpecCrud == InitConfigured /\ [][NextCrud]_vars

----------------------------------------------------------------------------
(* SpecMeta: partial updates of meta and of other fields, while time passes *)

MetaCreatePayloads ==
    {Required("easylive", U1, "catalogue"),
     With(Required("easylive", U1, "catalogue"), "meta", None),
     With(Required("easylive", U2, "catalogue"), "meta", Some(MetaA))}

MetaUpdatePayloads ==
    {NoFields,
     With(NoFields, "meta", None),
     With(NoFields, "meta", Some(MetaA)),
     With(NoFields, "meta", Some(MetaB)),
     With(NoFields, "meta", Some(EmptyObject)),
     With(NoFields, "status", Some("pending")),
     With(With(NoFields, "locked_at", None), "last_error", None),
     With(With(NoFields, "meta", Some(MetaB)), "site", None),
     With(With(NoFields, "meta", None), "attempts", None)}

MetaCreate == \E p \in MetaCreatePayloads : Create(ValidKey, p)
MetaUpdate ==
    \E id \in TaskIds : \E p \in MetaUpdatePayloads : Update(ValidKey, id, p)
MetaDelete == \E id \in TaskIds : Delete(ValidKey, id)

NextMeta ==
    \/ MetaCreate
    \/ MetaUpdate
    \/ MetaDelete
    \/ Tick

SpecMeta == InitConfigured /\ [][NextMeta]_vars

----------------------------------------------------------------------------
(* SpecPending: the two pending queries over tasks scheduled before, at and *)
(* after the current time                                                   *)

ScheduleInputs == {Some(t) : t \in Times}

PendingCreatePayloads ==
    {Required("easylive", U1, "catalogue"),
     With(Required("easylive", U1, "catalogue"), "status", Some("running"))}
      \cup {With(Required("easylive", U1, "catalogue"), "scheduled_at", s) :
               s \in ScheduleInputs}
      \cup {With(With(Required("easylive", U1, "catalogue"),
                      "scheduled_at", s), "status", Some("running")) :
               s \in ScheduleInputs}

PendingCreate == \E p \in PendingCreatePayloads : Create(ValidKey, p)
PendingNext == \E l \in Limits : NextPending(ValidKey, l)
PendingLater == \E l \in Limits : PendingFuture(ValidKey, l)

NextPendingQueries ==
    \/ PendingCreate
    \/ PendingNext
    \/ PendingLater
    \/ Tick

SpecPending == InitConfigured /\ [][NextPendingQueries]_vars

----------------------------------------------------------------------------
(* SpecList: the filtered, paginated list over tasks that differ in every   *)
(* filtered column                                                          *)

ListCreatePayloads ==
    {Required("easylive", U1, "catalogue"),
     With(Required("easylive", U1, "catalogue"), "scheduled_at", Some(0)),
     With(With(Required("the_saleroom", U1, "listing"),
               "scheduled_at", Some(1)), "status", Some("running"))}

ListFilters ==
    {NoFields,
     With(NoFields, "task_type", "catalogue"),
     With(NoFields, "status", "pending"),
     With(NoFields, "site", "the_saleroom"),
     With(NoFields, "scheduled_at", 0),
     With(NoFields, "scheduled_at_from", 1),
     With(NoFields, "scheduled_at_to", 0),
     With(NoFields, "created_at", 0),
     With(NoFields, "created_at_from", 1),
     With(NoFields, "created_at_to", 0),
     With(With(NoFields, "status", "pending"), "scheduled_at_from", 0)}

ListPages == {<<1, 0>>, <<1, 1>>, <<MaxTasks, 0>>, <<MaxTasks, 1>>}

ListCreate == \E p \in ListCreatePayloads : Create(ValidKey, p)
ListQuery ==
    \E f \in ListFilters : \E lo \in ListPages : List(ValidKey, f, lo[1], lo[2])

NextList ==
    \/ ListCreate
    \/ ListQuery
    \/ Tick

SpecList == InitConfigured /\ [][NextList]_vars

----------------------------------------------------------------------------
(* SpecRelated: the workers' tables and the delete by URL prefix *)

RelatedCreatePayloads ==
    {Required("easylive", U2, "catalogue"),
     Required("easylive", U2, "listing")}

\* The url parameter of the request; "_" is a character a URL may hold.
UrlPrefixes == {U1, <<"a", "_">>, <<"c">>}

TaskRunRange == 1 .. MaxInserts
ListingRange == 1 .. MaxInserts

RelatedCreate == \E p \in RelatedCreatePayloads : Create(ValidKey, p)
RelatedRun == \E id \in TaskIds : WorkerRun(id, None)
RelatedListing == \E r \in TaskRunRange : WorkerListing(r)
RelatedLink ==
    \E r \in TaskRunRange, l \in ListingRange : WorkerLink(r, l)
RelatedSnapshot == \E l \in ListingRange : WorkerSnapshot(l, EmptyObject)
RelatedDelete ==
    \E url \in UrlPrefixes, dry_run \in BOOLEAN :
        DeleteRelated(ValidKey, url, dry_run)

NextRelated ==
    \/ RelatedCreate
    \/ RelatedRun
    \/ RelatedListing
    \/ RelatedLink
    \/ RelatedSnapshot
    \/ RelatedDelete

SpecRelated == InitConfigured /\ [][NextRelated]_vars

----------------------------------------------------------------------------
(* SpecListings: the paginated listing queries over the workers' tables *)

DataA == {<<"sold_price", 1>>}
DataB == {<<"sold_price", 2>>}

Auctioneers == {"x"}
CatalogueUrls == {U2, <<"c">>}
ListingPages == {<<1, 0>>, <<1, 1>>, <<2, 0>>, <<MaxInserts, 0>>}

ListingsCreate == Create(ValidKey, Required("easylive", U2, "catalogue"))
ListingsRun ==
    \E id \in TaskIds, a \in {None} \cup {Some(n) : n \in Auctioneers} :
        WorkerRun(id, a)
ListingsListing == \E r \in TaskRunRange : WorkerListing(r)
ListingsLink ==
    \E r \in TaskRunRange, l \in ListingRange : WorkerLink(r, l)
ListingsSnapshot ==
    \E l \in ListingRange, data \in {DataA, DataB} : WorkerSnapshot(l, data)
ListingsByCatalogue ==
    \E url \in CatalogueUrls, page \in ListingPages :
        ByCatalogue(ValidKey, url, page[1], page[2])
ListingsByAuctioneer ==
    \E a \in Auctioneers, page \in ListingPages :
        ByAuctioneer(ValidKey, a, page[1], page[2])

NextListings ==
    \/ ListingsCreate
    \/ ListingsRun
    \/ ListingsListing
    \/ ListingsLink
    \/ ListingsSnapshot
    \/ ListingsByCatalogue
    \/ ListingsByAuctioneer

SpecListings == InitConfigured /\ [][NextListings]_vars

----------------------------------------------------------------------------
(* SpecRace: creates, updates and deletes of several clients interleaved *)

RaceCreatePayloads == {Required("easylive", U1, "catalogue")}

\* No payload sets a status to pending: two pending tasks of one tuple come
\* from creates only.
RaceUpdatePayloads ==
    {With(NoFields, "status", Some("running")),
     With(NoFields, "site", None)}

RaceTaskIds == {1}

RaceCreateBegin ==
    \E c \in Clients, p \in RaceCreatePayloads : CreateBegin(c, ValidKey, p)
RaceCreateInsert == \E c \in Clients : CreateInsert(c)
RaceUpdateBegin ==
    \E c \in Clients, id \in RaceTaskIds, p \in RaceUpdatePayloads :
        UpdateBegin(c, ValidKey, id, p)
RaceUpdateCommit == \E c \in Clients : UpdateCommit(c)
RaceDeleteBegin ==
    \E c \in Clients, id \in RaceTaskIds : DeleteBegin(c, ValidKey, id)
RaceDeleteCommit == \E c \in Clients : DeleteCommit(c)

NextRace ==
    \/ RaceCreateBegin
    \/ RaceCreateInsert
    \/ RaceUpdateBegin
    \/ RaceUpdateCommit
    \/ RaceDeleteBegin
    \/ RaceDeleteCommit

SpecRace == InitConfigured /\ [][NextRace]_vars

----------------------------------------------------------------------------
(* SpecTx: the delete by URL prefix as a transaction other requests and a   *)
(* failure can cut into.  The workers insert while no delete is in flight.  *)

TxClients == {1}

NoDeleteInFlight == InFlight("delete_related") = {}

TxCreate == Create(ValidKey, Required("easylive", U2, "catalogue"))
TxRun == NoDeleteInFlight /\ \E id \in TaskIds : WorkerRun(id, None)
TxListing == NoDeleteInFlight /\ \E r \in TaskRunRange : WorkerListing(r)
TxSnapshot ==
    NoDeleteInFlight /\ \E l \in ListingRange : WorkerSnapshot(l, EmptyObject)
TxBegin ==
    \E c \in TxClients, dry_run \in BOOLEAN :
        DeleteRelatedBegin(c, ValidKey, U1, dry_run)
TxExecute == \E c \in TxClients : DeleteRelatedExecute(c)
TxFail == \E c \in TxClients : DeleteRelatedFail(c)
TxCommit == \E c \in TxClients : DeleteRelatedCommit(c)
TxRead ==
    \E page \in ListingPages : ByCatalogue(ValidKey, U2, page[1], page[2])

NextTx ==
    \/ TxCreate
    \/ TxRun
    \/ TxListing
    \/ TxSnapshot
    \/ TxBegin
    \/ TxExecute
    \/ TxFail
    \/ TxCommit
    \/ TxRead

SpecTx == InitConfigured /\ [][NextTx]_vars

----------------------------------------------------------------------------
(* SpecFrame: every operation of the model, each request running alone *)

FrameTaskIds == {1}
FrameAuctioneer == "x"

FrameCreate == Create(ValidKey, Required("easylive", U2, "catalogue"))
FrameGet == \E id \in FrameTaskIds : Get(ValidKey, id)
FrameUpdate ==
    \E id \in FrameTaskIds :
        Update(ValidKey, id, With(NoFields, "status", Some("done")))
FrameDelete == \E id \in FrameTaskIds : Delete(ValidKey, id)
FrameList == List(ValidKey, NoFields, 1, 0)
FrameNextPending == NextPending(ValidKey, 1)
FramePendingFuture == PendingFuture(ValidKey, 1)
FrameDeleteRelated ==
    \E dry_run \in BOOLEAN : DeleteRelated(ValidKey, U1, dry_run)
FrameByCatalogue == ByCatalogue(ValidKey, U2, 1, 0)
FrameByAuctioneer == ByAuctioneer(ValidKey, FrameAuctioneer, 1, 0)
FrameRun == \E id \in FrameTaskIds : WorkerRun(id, Some(FrameAuctioneer))
FrameListing == \E r \in TaskRunRange : WorkerListing(r)
FrameSnapshot == \E l \in ListingRange : WorkerSnapshot(l, DataA)

NextFrame ==
    \/ FrameCreate
    \/ FrameGet
    \/ FrameUpdate
    \/ FrameDelete
    \/ FrameList
    \/ FrameNextPending
    \/ FramePendingFuture
    \/ FrameDeleteRelated
    \/ FrameByCatalogue
    \/ FrameByAuctioneer
    \/ FrameRun
    \/ FrameListing
    \/ FrameSnapshot

SpecFrame == InitConfigured /\ [][NextFrame]_vars

----------------------------------------------------------------------------
(* Properties *)

GateDetails == {"API_KEY is not configured", "Invalid API key"}

Configured == expected # None /\ expected # Some("")

\* C1: for every request, an unset or empty secret gives 500 whatever key is
\* sent; otherwise an absent or different key gives 401; the handler answers,
\* and the table or its id sequence changes, only when the key sent equals a
\* configured non-empty secret.
C1_GateDecides ==
    [][resp'.op # "idle" =>
         /\ IF ~Configured
            THEN resp'.code = 500 /\ resp'.detail = "API_KEY is not configured"
            ELSE IF resp'.key # expected
                 THEN resp'.code = 401 /\ resp'.detail = "Invalid API key"
                 ELSE resp'.detail \notin GateDetails
         /\ (resp'.detail \notin GateDetails \/ tasks' # tasks \/ nextId' # nextId)
               => (Configured /\ resp'.key = expected)]_vars

\* The secret is empty and a create that carries a key is answered 500.
C1_Witness ==
    /\ expected = Some("")
    /\ resp.op = "create"
    /\ resp.key = Some("k1")
    /\ resp.code = 500

SameTuple(a, b) ==
    /\ a.site = b.site
    /\ a.url = b.url
    /\ a.task_type = b.task_type
    /\ a.scheduled_at = b.scheduled_at

\* C2: in every state reached by create, update and delete-by-id requests
\* executed one at a time, at most one pending task exists for a
\* (site, url, task_type, scheduled_at) tuple.
C2_OnePendingPerTuple ==
    \A a \in tasks : \A b \in tasks :
        (a.status = "pending" /\ b.status = "pending" /\ SameTuple(a, b))
            => a.id = b.id

\* The pending rows that have the payload's tuple, NULL matching only NULL.
PendingWithTupleOf(payload) ==
    {t \in tasks :
        /\ t.status = "pending"
        /\ Some(t.site) = payload["site"]
        /\ Some(t.url) = payload["url"]
        /\ Some(t.task_type) = payload["task_type"]
        /\ t.scheduled_at = Field(payload, "scheduled_at")}

\* C3: a create whose tuple is that of a task still pending returns 409 with
\* the id of such a task and inserts nothing: the table is unchanged.
C3_DuplicateCreateConflicts ==
    [][\A p \in CrudCreatePayloads :
         (Create(ValidKey, p) /\ PendingWithTupleOf(p) # {})
            => /\ resp'.code = 409
               /\ resp'.id \in {t.id : t \in PendingWithTupleOf(p)}
               /\ tasks' = tasks
               /\ nextId' = nextId]_vars

\* A 409 naming a pending task whose scheduled_at is NULL.
C3_Witness ==
    /\ resp.op = "create"
    /\ resp.code = 409
    /\ \E t \in tasks :
          t.id = resp.id /\ t.status = "pending" /\ t.scheduled_at = None

\* C4: delete of a running or done task returns 409 and leaves it stored
\* unchanged; delete of a pending or failed task succeeds and every later
\* get of its id returns 404 (the id is never stored again); delete of an
\* absent id returns 404.
C4_DeleteByStatus ==
    [][/\ resp'.op = "delete" =>
            IF resp'.id \notin Ids
            THEN resp'.code = 404 /\ tasks' = tasks
            ELSE IF Row(resp'.id).status \in {"running", "done"}
            THEN resp'.code = 409 /\ tasks' = tasks
            ELSE /\ Row(resp'.id).status \in {"pending", "failed"}
                 /\ resp'.code = 204
                 /\ tasks' = tasks \ {Row(resp'.id)}
       /\ \A id \in TaskIds : (id < nextId /\ id \notin Ids) => id \notin Ids'
       /\ (resp'.op = "get" /\ resp'.id \notin Ids') => resp'.code = 404]_vars

\* A get of an id that was handed out and deleted.
C4_Witness ==
    /\ resp.op = "get"
    /\ resp.code = 404
    /\ resp.id < nextId

\* C5: after a create that returns 201 the stored status is pending when the
\* payload has no status field and is the payload's status when it has one.
C5_CreateStatus ==
    [][\A p \in CrudCreatePayloads :
         (Create(ValidKey, p) /\ resp'.code = 201)
            => \E t \in tasks' :
                  /\ t.id = resp'.id
                  /\ "status" \notin DOMAIN p => t.status = "pending"
                  /\ ("status" \in DOMAIN p /\ p["status"] # None)
                        => Some(t.status) = p["status"]]_vars

\* A created task stored with the status the payload gave.
C5_Witness ==
    /\ resp.op = "create"
    /\ resp.code = 201
    /\ \E t \in tasks : t.id = resp.id /\ t.status = "done"

\* The stored meta of task id after the step.
MetaAfter(id) == (CHOOSE t \in tasks' : t.id = id).meta

\* What the claim says the stored meta is after an update with payload p.
MetaAsClaimed(id, p) ==
    IF "meta" \notin DOMAIN p \/ p["meta"] = None
    THEN MetaAfter(id) = Row(id).meta
    ELSE MetaAfter(id) = p["meta"]

\* The payload sends null for a column that is nullable=False.
NullsRequiredColumn(p) ==
    \E f \in DOMAIN p :
        f \in {"site", "url", "task_type", "status", "attempts", "max_attempts"}
          /\ p[f] = None

\* C6 as stated: for every update of an existing task, meta omitted or null
\* leaves the stored meta unchanged and a concrete object replaces it.
C6_EveryUpdate ==
    [][\A id \in TaskIds : \A p \in MetaUpdatePayloads :
         (Update(ValidKey, id, p) /\ id \in Ids) => MetaAsClaimed(id, p)]_vars

\* C6 amended: the same for every update of an existing task that is
\* answered 200; an update that fails leaves the stored meta unchanged
\* whatever its payload, and one that sends null for a non-nullable column
\* fails.
C6_MetaOnUpdate ==
    [][\A id \in TaskIds : \A p \in MetaUpdatePayloads :
         (Update(ValidKey, id, p) /\ id \in Ids)
            => /\ IF resp'.code = 200
                  THEN MetaAsClaimed(id, p)
                  ELSE MetaAfter(id) = Row(id).meta
               /\ NullsRequiredColumn(p) => resp'.code = 500]_vars

\* An update answered 200 on a task created with meta {a: 1}, now {b: 2}.
C6_Witness ==
    /\ resp.op = "update"
    /\ resp.code = 200
    /\ \E t \in tasks : t.id = resp.id /\ t.url = U2 /\ t.meta = Some(MetaB)

\* C7: every update answered 200, whatever fields it carries, leaves the
\* task's updated_at equal to the current time and not before its previous
\* updated_at.
C7_UpdateStamps ==
    [][(resp'.op = "update" /\ resp'.code = 200)
          => \E t \in tasks' :
                /\ t.id = resp'.id
                /\ t.updated_at = now
                /\ t.updated_at >= Row(resp'.id).updated_at]_vars

\* A task updated after the clock moved past its creation.
C7_Witness ==
    /\ resp.op = "update"
    /\ resp.code = 200
    /\ \E t \in tasks : t.id = resp.id /\ t.updated_at > t.created_at

\* C8: every task next_pending returns, for every limit, is pending and has
\* scheduled_at null or not later than the time of the request.
C8_NextPendingDue ==
    (resp.op = "next_pending" /\ resp.code = 200)
        => \A id \in resp.items :
              \E t \in tasks :
                 /\ t.id = id
                 /\ t.status = "pending"
                 /\ (t.scheduled_at = None \/ The(t.scheduled_at) <= now)

\* next_pending answered with a task while a pending task scheduled later
\* is stored.
C8_Witness ==
    /\ resp.op = "next_pending"
    /\ resp.items # {}
    /\ \E t \in tasks :
          /\ t.id \notin resp.items
          /\ t.status = "pending"
          /\ t.scheduled_at # None
          /\ The(t.scheduled_at) > now

\* C9: at one table state and one current time, no task is matched by both
\* pending_future and next_pending, and every pending task with a non-null
\* scheduled_at is matched by exactly one of them.
C9_PendingPartition ==
    /\ NextPendingMatched(now) \cap PendingFutureMatched(now) = {}
    /\ \A t \in tasks :
          (t.status = "pending" /\ t.scheduled_at # None)
             => (t \in NextPendingMatched(now)) # (t \in PendingFutureMatched(now))

\* pending_future answered while one pending task is scheduled exactly now
\* and another later.
C9_Witness ==
    /\ resp.op = "pending_future"
    /\ resp.items # {}
    /\ \E t \in tasks : t.status = "pending" /\ t.scheduled_at = Some(now)

\* The stored tasks a list request's filters select: equality on task_type,
\* status, site, scheduled_at and created_at, inclusive bounds for _from and
\* _to; a task without scheduled_at passes no scheduled_at filter.
Selected(f) ==
    LET Has(k) == k \in DOMAIN f
        Sched(t, Test(_)) == t.scheduled_at # None /\ Test(The(t.scheduled_at))
    IN {t \in tasks :
          /\ Has("task_type") => t.task_type = f["task_type"]
          /\ Has("status") => t.status = f["status"]
          /\ Has("site") => t.site = f["site"]
          /\ Has("scheduled_at") =>
                LET Eq(x) == x = f["scheduled_at"] IN Sched(t, Eq)
          /\ Has("scheduled_at_from") =>
                LET Ge(x) == x >= f["scheduled_at_from"] IN Sched(t, Ge)
          /\ Has("scheduled_at_to") =>
                LET Le(x) == x <= f["scheduled_at_to"] IN Sched(t, Le)
          /\ Has("created_at") => t.created_at = f["created_at"]
          /\ Has("created_at_from") => ~(t.created_at < f["created_at_from"])
          /\ Has("created_at_to") => ~(t.created_at > f["created_at_to"])}

\* C10: whatever the filters, every result the list operation can return
\* has total equal to the number of stored tasks the filters select, for
\* every limit and offset alike, and at most limit items.
C10_ListTotal ==
    \A f \in ListFilters : \A lo \in ListPages :
        \A r \in ListResults(f, lo[1], lo[2]) :
            /\ r.total = Cardinality(Selected(f))
            /\ Cardinality(r.items) <= lo[1]

\* A list answered with fewer items than its total.
C10_Witness ==
    /\ resp.op = "list"
    /\ resp.code = 200
    /\ resp.items # {}
    /\ Cardinality(resp.items) < resp.total

StartsWith(s, prefix) ==
    /\ Len(prefix) <= Len(s)
    /\ SubSeq(s, 1, Len(prefix)) = prefix

CataloguesStartingWith(prefix) ==
    {t.id : t \in {t \in tasks : /\ t.task_type = "catalogue"
                                 /\ StartsWith(t.url, prefix)}}

\* C11: a dry-run delete by URL prefix returns the task ids the non-dry-run
\* call returns from the same state, which are the ids of the catalogue tasks
\* whose url starts with the prefix, and changes no row of scrape_tasks,
\* task_runs, listing_task_runs, listings or listing_snapshots.
C11_DryRun ==
    [][\A url \in UrlPrefixes :
          DeleteRelated(ValidKey, url, TRUE) =>
              /\ resp'.items = DeleteRelatedOutcome(url, FALSE).task_ids
              /\ resp'.items = CataloguesStartingWith(url)
              /\ UNCHANGED <<tasks, task_runs, listing_task_runs, listings,
                             listing_snapshots>>]_vars

RunsOf(task_ids) == {r.id : r \in {r \in task_runs : r.task_id \in task_ids}}

LinkedTo(task_run_ids) ==
    {j.listing_id : j \in
        {j \in listing_task_runs : j.task_run_id \in task_run_ids}}

\* C12: after a completed non-dry-run delete by URL prefix no task_runs row
\* belongs to a matched task, no listing_task_runs row refers to a run of a
\* matched task, no listings or listing_snapshots row remains for a listing
\* that was linked to such a run, and scrape_tasks is as it was.
C12_RelatedRowsGone ==
    [][\A url \in UrlPrefixes :
          (DeleteRelated(ValidKey, url, FALSE) /\ resp'.code = 200) =>
              LET matched == resp'.items
                  runs == RunsOf(matched)
                  linked == LinkedTo(runs)
              IN  /\ matched # {}
                  /\ \A r \in task_runs' : r.task_id \notin matched
                  /\ \A j \in listing_task_runs' : j.task_run_id \notin runs
                  /\ \A l \in listings' : l.id \notin linked
                  /\ \A s \in listing_snapshots' : s.listing_id \notin linked
                  /\ tasks' = tasks]_vars

\* A delete that removed a run, its listing and the listing's snapshot.
C12_Witness ==
    /\ resp.op = "delete_related"
    /\ resp.code = 200
    /\ ~resp.dry_run
    /\ seqs.task_runs > 1 /\ task_runs = {}
    /\ seqs.listings > 1 /\ listings = {}
    /\ seqs.listing_snapshots > 1 /\ listing_snapshots = {}
    /\ listing_task_runs = {}
    /\ tasks # {}

\* C13: the non-dry-run delete by URL prefix is atomic.  In every state
\* another request can observe, and in the final state when it fails at any
\* of its statements, either none of its deletes is applied or all of them
\* are: a step changes the committed rows of the four tables only by applying
\* all four DELETEs at once, when the request commits and answers 200 (or by
\* a worker's insert).
C13_DeleteRelatedAtomic ==
    [][(seqs' = seqs /\ Database' # Database) =>
          \E c \in Clients :
              /\ reqs[c].op = "delete_related"
              /\ reqs'[c] = NoRequest
              /\ resp'.code = 200
              /\ Database' = Executed(Database, StatementCount,
                                      reqs[c].task_run_ids,
                                      reqs[c].listing_ids)]_vars

\* The request has executed its DELETE of the join rows and of the
\* snapshots; the committed tables still hold those rows.
C13_Witness ==
    \E c \in Clients :
        /\ reqs[c].op = "delete_related"
        /\ reqs[c].executed = 3
        /\ \E j \in listing_task_runs :
               j.task_run_id \in reqs[c].task_run_ids
        /\ \E s \in listing_snapshots :
               s.listing_id \in reqs[c].listing_ids
        /\ \E l \in listings : l.id \in reqs[c].listing_ids

TwoPendingOfOneTuple(table) ==
    \E a \in table : \E b \in table :
        /\ a.id # b.id
        /\ a.status = "pending" /\ b.status = "pending"
        /\ SameTuple(a, b)

\* C14: a create that passed the duplicate check inserts its task although
\* a concurrent create of the same (site, url, task_type, scheduled_at) has
\* inserted a pending task since the check: both creates are answered 201 and
\* the table holds two pending tasks of that tuple.
C14_BothCreatesInsert ==
    [][\A c \in Clients :
          (CreateInsert(c) /\ ExistingPending(reqs[c].data) # {}) =>
              /\ resp'.code = 201
              /\ Cardinality(tasks') = Cardinality(tasks) + 1
              /\ TwoPendingOfOneTuple(tasks')]_vars

\* Two creates interleaved: both answered, two pending tasks of one tuple.
C14_Witness ==
    /\ resp.op = "create"
    /\ resp.code = 201
    /\ TwoPendingOfOneTuple(tasks)

\* C15: only create, update and delete by id change scrape_tasks, and only
\* the non-dry-run delete by URL prefix changes task_runs, listing_task_runs,
\* listings and listing_snapshots; every other operation of the service,
\* next_pending included (it sets neither status nor locked_at), leaves the
\* five tables unchanged.  (The workers' inserts are not operations of the
\* service; they are the steps that advance seqs.)
C15_WhoChangesWhat ==
    [][/\ tasks' # tasks => resp'.op \in {"create", "update", "delete"}
       /\ (seqs' = seqs /\ Database' # Database) =>
              /\ resp'.op = "delete_related"
              /\ resp'.code = 200
              /\ ~resp'.dry_run
              /\ tasks' = tasks
       /\ resp'.op \in {"create", "update", "delete"} =>
              Database' = Database]_vars

\* next_pending has returned a task that has runs: it is still pending and
\* unlocked, and the runs are there.
C15_Witness ==
    /\ resp.op = "next_pending"
    /\ resp.code = 200
    /\ resp.items # {}
    /\ \A id \in resp.items : /\ Row(id).status = "pending"
                              /\ Row(id).locked_at = None
                              /\ \E r \in task_runs : r.task_id = id

\* C16: a request that acquired a database session has released it when it
\* has completed, whether it returned normally or ended in an error (404,
\* 409, a database failure): the open sessions are those of the requests
\* still in flight, and none is open once every request has completed.
C16_SessionsReleased ==
    sessions = {c \in Clients : reqs[c].pc # "idle"}

\* An update failed at its commit; no request is in flight, no session open.
C16_Witness ==
    /\ resp.op = "update"
    /\ resp.code = 500
    /\ \A c \in Clients : reqs[c].pc = "idle"
    /\ sessions = {}
    /\ tasks # {}

\* What the claim gives for next_offset when the items query selects
\* `selected` rows and the page holds `returned` of them.
NextOffsetAsClaimed(offset, returned, selected) ==
    IF offset + returned >= selected THEN None ELSE Some(offset + returned)

\* C17: for the listings by catalogue URL and the listings by auctioneer,
\* for every limit and offset, next_offset is null exactly when the rows the
\* items query selects are exhausted (offset plus the rows returned reaches
\* their number) and otherwise equals offset plus the rows returned, so that
\* paging by next_offset until it is null visits every selected row.
C17_NextOffset ==
    \A page \in ListingPages :
        /\ \A url \in CatalogueUrls :
               \A r \in ByCatalogueResults(url, page[1], page[2]) :
                   r.next_offset =
                       NextOffsetAsClaimed(page[2], Cardinality(r.items),
                           Cardinality(ByCatalogueRows(url)))
        /\ \A a \in Auctioneers :
               \A r \in ByAuctioneerResults(a, page[1], page[2]) :
                   r.next_offset =
                       NextOffsetAsClaimed(page[2], Cardinality(r.items),
                           Cardinality(ByAuctioneerRows(a)))

\* Every join row refers to a task_runs row and to a listings row.
JoinRowsResolve(db) ==
    \A j \in db.listing_task_runs :
        /\ \E r \in db.task_runs : r.id = j.task_run_id
        /\ \E l \in db.listings : l.id = j.listing_id

\* C18: when every listing_task_runs row refers to an existing task_run and
\* an existing listing before a non-dry-run delete by URL prefix, the same
\* holds after it, also when a deleted listing was linked to a run of a task
\* the prefix did not match.
C18_NoDanglingJoinRows ==
    [][\A url \in UrlPrefixes :
          (DeleteRelated(ValidKey, url, FALSE) /\ JoinRowsResolve(Database)) =>
              JoinRowsResolve(DeleteRelatedOutcome(url, FALSE).db)]_vars

\* C19: under every interleaving of a delete by id with a concurrent update
\* of the same task, the task is removed only if its committed status at the
\* moment the delete commits is pending or failed; a task whose committed
\* status is running or done is never deleted.
C19_DeletesOnlyDeletable ==
    [][\A t \in tasks :
          (\A u \in tasks' : u.id # t.id) => Deletable(t)]_vars

====
